---------------------------- MODULE Spec2Model ----------------------------
(***************************************************************************)
(* Model of rain's src/main.rs: the startup system `setup` and the        *)
(* per-frame system `move_player`.                                         *)
(*                                                                         *)
(* Numbers.  The program computes in f32.  The model computes in exact     *)
(* rationals (reduced fractions n/d, d > 0), over inputs whose vector      *)
(* lengths are rational, so every sqrt of the code is exact here.  f32     *)
(* rounding is abstracted away; f32 overflow and underflow cannot occur    *)
(* for the inputs the program receives (axis components in [-1,1] after    *)
(* clamped_axis_pair, max_speed 150, dt a frame time taken from a          *)
(* Duration).                                                              *)
(*                                                                         *)
(* Angles.  An angle t in (-pi, pi] is represented by the pair             *)
(* [c |-> cos t, s |-> sin t]; angle 0 is [c |-> 1, s |-> 0] and pi/2 is   *)
(* [c |-> 0, s |-> 1].  A rotation about z (Quat::from_rotation_z) is      *)
(* represented by its angle.                                               *)
(***************************************************************************)
EXTENDS Integers, FiniteSets, TLC

VARIABLES
    entities,          \* the world: what `setup` spawned, entity name -> components
    input_map,         \* InputMap of the player entity: what Action::Move is bound to
    player,            \* Player component of the player entity
    player_transform,  \* Transform component of the player entity (z is never touched)
    action_state,      \* ActionState<Action> of the player entity, for Action::Move
    time_delta,        \* Res<Time>: delta_seconds() of the current frame
    status,            \* "running", or "panicked" once a system has panicked
    frames,            \* history: number of Update frames run so far
    before,            \* history: player_transform as it was before the last frame
    last_turn_axis,    \* history: axis of the latest frame pressed with non-zero axis
    active_time        \* history: sum of dt over the frames in which Move was pressed

vars == <<entities, input_map, player, player_transform, action_state, time_delta,
          status, frames, before, last_turn_axis, active_time>>

\* Number of Update frames explored.
MaxFrames == 3

-----------------------------------------------------------------------------
(* Exact rational arithmetic standing for f32 arithmetic. *)

Abs(i) == IF i < 0 THEN -i ELSE i

RECURSIVE GCD(_, _)
GCD(a, b) == IF b = 0 THEN a ELSE GCD(b, a % b)

\* The fraction n/d (d # 0) in lowest terms with a positive denominator.
R(n, d) ==
    LET g == GCD(Abs(n), Abs(d))
        sgn == IF d < 0 THEN -1 ELSE 1
    IN  [n |-> sgn * (n \div g), d |-> sgn * (d \div g)]

Zero == [n |-> 0, d |-> 1]
One  == [n |-> 1, d |-> 1]

RAdd(p, q) == R(p.n * q.d + q.n * p.d, p.d * q.d)
RSub(p, q) == R(p.n * q.d - q.n * p.d, p.d * q.d)
RMul(p, q) == R(p.n * q.n, p.d * q.d)
RDiv(p, q) == R(p.n * q.d, p.d * q.n)
RNeg(p)    == [n |-> -p.n, d |-> p.d]
RLt(p, q)  == p.n * q.d < q.n * p.d
RLe(p, q)  == p.n * q.d <= q.n * p.d

RECURSIVE ISqrtIn(_, _, _)
\* The largest k in lo..hi with k*k <= n (binary search).
ISqrtIn(n, lo, hi) ==
    IF lo >= hi THEN lo
    ELSE LET mid == (lo + hi + 1) \div 2
         IN  IF mid * mid <= n THEN ISqrtIn(n, mid, hi) ELSE ISqrtIn(n, lo, mid - 1)

ISqrt(n) == ISqrtIn(n, 0, IF n < 46340 THEN n ELSE 46340)

IsSquare(p) == ISqrt(p.n) * ISqrt(p.n) = p.n /\ ISqrt(p.d) * ISqrt(p.d) = p.d

\* f32::sqrt, on the rationals whose root is rational.
sqrt(p) == [n |-> ISqrt(p.n), d |-> ISqrt(p.d)]

\* f32::powi(2)
powi2(p) == RMul(p, p)

-----------------------------------------------------------------------------
(* glam Vec2 *)

Vec2(x, y) == [x |-> x, y |-> y]
Vec2_ZERO  == Vec2(Zero, Zero)
Vec2_X     == Vec2(One, Zero)

vec_scale(v, k) == Vec2(RMul(v.x, k), RMul(v.y, k))
vec_add(v, w)   == Vec2(RAdd(v.x, w.x), RAdd(v.y, w.y))
vec_sub(v, w)   == Vec2(RSub(v.x, w.x), RSub(v.y, w.y))
dot(v, w)       == RAdd(RMul(v.x, w.x), RMul(v.y, w.y))
perp_dot(v, w)  == RSub(RMul(v.x, w.y), RMul(v.y, w.x))
length_squared(v) == dot(v, v)
vec_length(v)   == sqrt(RAdd(powi2(v.x), powi2(v.y)))

\* Vec2::normalize (called on non-zero vectors only)
normalize(v) == LET l == vec_length(v) IN Vec2(RDiv(v.x, l), RDiv(v.y, l))

\* Faulty variant of angle_between: the operands of perp_dot swapped, which measures the
\* angle clockwise.
angle_between_clockwise(self, rhs) ==
    LET c   == RDiv(dot(self, rhs),
                    sqrt(RMul(length_squared(self), length_squared(rhs))))
        abs_s == sqrt(RSub(One, powi2(c)))
        sgn == IF RLt(perp_dot(rhs, self), Zero) THEN RNeg(One) ELSE One
    IN  [c |-> c, s |-> RMul(abs_s, sgn)]

\* Vec2::angle_between: acos(dot / sqrt(|self|^2 * |rhs|^2)) * signum(perp_dot),
\* given by its cosine and sine; signum(0.0) is 1.0.
angle_between(self, rhs) ==
    LET c   == RDiv(dot(self, rhs),
                    sqrt(RMul(length_squared(self), length_squared(rhs))))
        abs_s == sqrt(RSub(One, powi2(c)))
        sgn == IF RLt(perp_dot(self, rhs), Zero) THEN RNeg(One) ELSE One
    IN  [c |-> c, s |-> RMul(abs_s, sgn)]

\* Quat::from_rotation_z: the rotation about z by `angle`, represented by the angle.
from_rotation_z(angle) == angle

\* Quat::IDENTITY, the rotation of Transform::default(): angle 0.
Quat_IDENTITY == [c |-> One, s |-> Zero]

-----------------------------------------------------------------------------
(* Inputs of a frame. *)

\* Stick positions the input source reports, each component in [-1, 1]:
\* centred, full pushes right, up and down, a full and a half push along
\* (3/5, 4/5), and a tiny push (0.01, 0).
Axes ==
    { Vec2_ZERO,
      Vec2(One, Zero), Vec2(Zero, One), Vec2(Zero, R(-1, 1)),
      Vec2(R(3, 5), R(4, 5)), Vec2(R(3, 10), R(2, 5)),
      Vec2(R(1, 100), Zero) }

\* Frame times Time::delta_seconds() reports (a Duration as seconds, never
\* negative): 0 (the first frame), 16 ms and 100 ms.
DtValues == { Zero, R(2, 125), R(1, 10) }

\* Frame times outside the clock's contract.
NegativeDtValues == { R(-1, 10) }

None    == [some |-> FALSE, v |-> Vec2_ZERO]
Some(v) == [some |-> TRUE, v |-> v]

-----------------------------------------------------------------------------
(* setup: the Startup system. *)

\* Faulty variant of PlayerComponent: another speed.
PlayerComponent_slow == [max_speed |-> R(15, 1)]

\* Player { max_speed: 150. }
PlayerComponent == [max_speed |-> R(150, 1)]

\* Transform { translation: Vec3::new(0., 0., 0.), ..default() }
PlayerSpawnTransform == [translation |-> Vec2_ZERO, rotation |-> Quat_IDENTITY]

\* Faulty variant of PlayerInputMap: Move bound to a button, which carries no axis pair.
PlayerInputMap_button == "Button"

\* InputMap::default().insert(Action::Move, DualAxis::left_stick()).build()
PlayerInputMap == "DualAxis"

\* ActionState::default(): nothing pressed, no axis pair recorded.
ActionState_default == [pressed |-> FALSE, axis_pair |-> None]

\* Every entity `setup` spawns, with the components the move_player query looks at.
setup ==
    [ camera  |-> {"Camera", "Transform"},
      player  |-> {"Player", "ActionState", "InputMap", "Transform", "Sprite"},
      nose    |-> {"Transform", "Sprite"},
      stick   |-> {"TouchStick", "Node"},
      knob    |-> {"TouchStickUiKnob", "Node"},
      outline |-> {"TouchStickUiOutline", "Node"} ]

Init ==
    /\ entities = setup
    /\ input_map = PlayerInputMap
    /\ player = PlayerComponent
    /\ player_transform = PlayerSpawnTransform
    /\ action_state = ActionState_default
    /\ time_delta = Zero
    /\ status = "running"
    /\ frames = 0
    /\ before = PlayerSpawnTransform
    /\ last_turn_axis = None
    /\ active_time = Zero

-----------------------------------------------------------------------------
(* InputManagerPlugin::<Action>: refreshes the ActionState before Update. *)

\* What the plugin records for Action::Move from the stick: an action bound to a
\* dual axis carries the stick's axis pair, one bound to a button carries none,
\* and an unbound action is never pressed.
update_action_state(map, stick, pressed) ==
    IF map = "DualAxis" THEN [pressed |-> pressed, axis_pair |-> Some(stick)]
    ELSE IF map = "Button" THEN [pressed |-> pressed, axis_pair |-> None]
    ELSE ActionState_default

clamp(x, lo, hi) == IF RLt(x, lo) THEN lo ELSE IF RLt(hi, x) THEN hi ELSE x

\* ActionState::clamped_axis_pair: the axis pair, each component clamped to [-1, 1].
clamped_axis_pair(state) ==
    IF state.axis_pair.some
    THEN Some(Vec2(clamp(state.axis_pair.v.x, RNeg(One), One),
                   clamp(state.axis_pair.v.y, RNeg(One), One)))
    ELSE None

-----------------------------------------------------------------------------
(* move_player: the Update system. *)

\* Query<(&mut Transform, &ActionState<Action>, &Player)>: the matching entities.
players(world) ==
    { e \in DOMAIN world : {"Transform", "ActionState", "Player"} \subseteq world[e] }

\* let mut move_delta = axis_value * player.max_speed * time.delta_seconds();
raw_move_delta(axis_value, max_speed, dt) ==
    vec_scale(vec_scale(axis_value, max_speed), dt)

\* Faulty variant of normalize_step: the division by the length left out.
normalize_step_skipped(move_delta) == move_delta

\* length = sqrt(x^2 + y^2); if length > 0.0 { move_delta /= length }
normalize_step(move_delta) ==
    LET length == vec_length(move_delta)
    IN  IF RLt(Zero, length)
        THEN Vec2(RDiv(move_delta.x, length), RDiv(move_delta.y, length))
        ELSE move_delta

\* Faulty variant of displacement: the normalised direction is not scaled again.
displacement_unscaled(axis_value, max_speed, dt) ==
    normalize_step(raw_move_delta(axis_value, max_speed, dt))

\* Faulty variant of displacement: the raw move_delta is applied, so that the push
\* strength sets the speed.
displacement_analog(axis_value, max_speed, dt) ==
    raw_move_delta(axis_value, max_speed, dt)

\* The displacement added to the translation:
\* the normalised move_delta, then move_delta *= player.max_speed * delta_seconds.
displacement(axis_value, max_speed, dt) ==
    vec_scale(normalize_step(raw_move_delta(axis_value, max_speed, dt)),
              RMul(max_speed, dt))

\* Faulty variant of new_rotation: a zero axis resets the rotation.
new_rotation_reset(axis_value, rotation) ==
    IF axis_value # Vec2_ZERO
    THEN from_rotation_z(angle_between(Vec2_X, normalize(axis_value)))
    ELSE Quat_IDENTITY

\* if axis_value != Vec2::ZERO { rotation = from_rotation_z(angle_between(X, normalized)) }
new_rotation(axis_value, rotation) ==
    IF axis_value # Vec2_ZERO
    THEN from_rotation_z(angle_between(Vec2_X, normalize(axis_value)))
    ELSE rotation

\* Faulty variant of move_player_body: the pressed() test left out.
move_player_body_unguarded(transform, state, plr, dt) ==
    IF clamped_axis_pair(state).some
    THEN LET axis_value == clamped_axis_pair(state).v
         IN  [status |-> "running",
              transform |->
                  [translation |-> vec_add(transform.translation,
                                           displacement(axis_value, plr.max_speed, dt)),
                   rotation |-> new_rotation(axis_value, transform.rotation)]]
    ELSE [status |-> "panicked", transform |-> transform]

\* Faulty variant of move_player_body: the rotation is set inside `if length > 0.0`.
move_player_body_turn_if_moved(transform, state, plr, dt) ==
    IF state.pressed
    THEN IF clamped_axis_pair(state).some
         THEN LET axis_value == clamped_axis_pair(state).v
                  length == vec_length(raw_move_delta(axis_value, plr.max_speed, dt))
              IN  [status |-> "running",
                   transform |->
                       [translation |-> vec_add(transform.translation,
                                                displacement(axis_value, plr.max_speed, dt)),
                        rotation |-> IF RLt(Zero, length)
                                     THEN new_rotation(axis_value, transform.rotation)
                                     ELSE transform.rotation]]
         ELSE [status |-> "panicked", transform |-> transform]
    ELSE [status |-> "running", transform |-> transform]

\* The body of move_player once the single player has been found: the Transform
\* it leaves, or a panic when unwrap() meets None.
move_player_body(transform, state, plr, dt) ==
    IF state.pressed
    THEN IF clamped_axis_pair(state).some
         THEN LET axis_value == clamped_axis_pair(state).v
              IN  [status |-> "running",
                   transform |->
                       [translation |-> vec_add(transform.translation,
                                                displacement(axis_value, plr.max_speed, dt)),
                        rotation |-> new_rotation(axis_value, transform.rotation)]]
         ELSE [status |-> "panicked", transform |-> transform]
    ELSE [status |-> "running", transform |-> transform]

\* move_player: players.single_mut() panics unless exactly one entity matches.
move_player(world, transform, state, plr, dt) ==
    IF Cardinality(players(world)) = 1
    THEN move_player_body(transform, state, plr, dt)
    ELSE [status |-> "panicked", transform |-> transform]

-----------------------------------------------------------------------------
(* One frame of the Update schedule, with the frame time taken from `dts`. *)

Frame(dts) ==
    /\ status = "running"
    /\ frames < MaxFrames
    /\ \E stick \in Axes, pressed \in BOOLEAN, dt \in dts :
         LET state  == update_action_state(input_map, stick, pressed)
             result == move_player(entities, player_transform, state, player, dt)
         IN  /\ action_state' = state
             /\ time_delta' = dt
             /\ status' = result.status
             /\ player_transform' = result.transform
             /\ before' = player_transform
             /\ frames' = frames + 1
             /\ last_turn_axis' =
                    IF pressed /\ stick # Vec2_ZERO THEN Some(stick) ELSE last_turn_axis
             /\ active_time' = IF pressed THEN RAdd(active_time, dt) ELSE active_time
    /\ UNCHANGED <<entities, input_map, player>>

\* A frame of the running application: the clock never reports a negative time.
Update == Frame(DtValues)

\* A frame driven by a clock that may also report a negative time.
UpdateAnyDt == Frame(DtValues \cup NegativeDtValues)

Next == Update

Spec == Init /\ [][Next]_vars

NextAnyDt == UpdateAnyDt

SpecAnyDt == Init /\ [][NextAnyDt]_vars

-----------------------------------------------------------------------------
(* Vocabulary of the properties: the last frame's reading and its effect. *)

Ran       == frames > 0
Active    == action_state.pressed
Axis      == action_state.axis_pair.v
Dt        == time_delta
Position  == player_transform.translation
Rotation  == player_transform.rotation
Delta     == vec_sub(player_transform.translation, before.translation)
MaxSpeed  == R(150, 1)
Angle0    == [c |-> One, s |-> Zero]
QuarterTurn == [c |-> Zero, s |-> One]

\* `a` is the counter-clockwise angle from (1,0) to the direction of v:
\* v = |v| * (cos a, sin a).
IsAngleOf(a, v) ==
    /\ RAdd(powi2(a.c), powi2(a.s)) = One
    /\ IsSquare(length_squared(v))
    /\ v.x = RMul(sqrt(length_squared(v)), a.c)
    /\ v.y = RMul(sqrt(length_squared(v)), a.s)

\* w is a positive multiple of the non-zero vector v.
PositiveMultiple(v, w) ==
    /\ v # Vec2_ZERO
    /\ perp_dot(v, w) = Zero
    /\ RLt(Zero, dot(v, w))

-----------------------------------------------------------------------------
\* C1: a frame in which Move is not pressed leaves position and rotation as
\* they were, whatever the axis, the frame time and the prior state.
C1_NoOpWhenInactive ==
    (Ran /\ ~Active) => player_transform = before

C1_Witness ==
    /\ Ran /\ ~Active
    /\ Axis # Vec2_ZERO /\ RLt(Zero, Dt)
    /\ before.translation # Vec2_ZERO /\ before.rotation # Angle0
    /\ player_transform = before

\* C2: in a pressed frame with non-zero axis and dt >= 0 the position change has
\* magnitude max_speed * dt; with dt = 0 it is (0,0).
C2_DisplacementMagnitude ==
    (Ran /\ Active /\ Axis # Vec2_ZERO /\ RLe(Zero, Dt)) =>
        /\ length_squared(Delta) = powi2(RMul(MaxSpeed, Dt))
        /\ (Dt = Zero => Delta = Vec2_ZERO /\ Position = before.translation)

C2_Witness ==
    /\ Ran /\ Active
    /\ Axis = Vec2(R(1, 100), Zero) /\ Dt = R(1, 10)
    /\ Delta = Vec2(R(15, 1), Zero)

\* C3: a pressed frame with axis (0,0) leaves rotation and position unchanged,
\* and the division by the length is skipped (the length is 0).
C3_ZeroAxis ==
    (Ran /\ Active /\ Axis = Vec2_ZERO) =>
        /\ player_transform = before
        /\ vec_length(raw_move_delta(Axis, player.max_speed, Dt)) = Zero
        /\ normalize_step(raw_move_delta(Axis, player.max_speed, Dt)) = Vec2_ZERO

C3_Witness ==
    /\ Ran /\ Active /\ Axis = Vec2_ZERO /\ RLt(Zero, Dt)
    /\ before.translation # Vec2_ZERO /\ before.rotation # Angle0
    /\ player_transform = before

\* C4: after a pressed frame with non-zero axis, rotation is the counter-clockwise
\* angle from (1,0) to the axis, whatever it was before: 0 for (1,0), a quarter
\* turn for (0,1).
C4_RotationMatchesDirection ==
    (Ran /\ Active /\ Axis # Vec2_ZERO) =>
        /\ IsAngleOf(Rotation, Axis)
        /\ (Axis = Vec2(One, Zero) => Rotation = Angle0)
        /\ (Axis = Vec2(Zero, One) => Rotation = QuarterTurn)

C4_Witness ==
    /\ Ran /\ Active /\ Axis = Vec2(Zero, One)
    /\ before.rotation \notin {Angle0, QuarterTurn}
    /\ Rotation = QuarterTurn

C6_RotationHistory ==
    /\ (Ran /\ ~(Active /\ Axis # Vec2_ZERO)) => Rotation = before.rotation
    /\ IF last_turn_axis.some
       THEN IsAngleOf(Rotation, last_turn_axis.v)
       ELSE Rotation = Angle0

C6_Witness ==
    /\ frames >= 2 /\ Active /\ Axis # Vec2_ZERO /\ Dt = Zero
    /\ before.rotation # Angle0 /\ Rotation # before.rotation
    /\ IsAngleOf(Rotation, Axis)

\* C7: the player starts at (0,0) with rotation 0 and max_speed 150, and
\* max_speed is 150 in every reachable state.
C7_StartupAndConstantSpeed ==
    /\ player.max_speed = MaxSpeed
    /\ (frames = 0 => Position = Vec2_ZERO /\ Rotation = Angle0)

C7_Witness ==
    /\ frames >= 2 /\ Position # Vec2_ZERO /\ Rotation # Angle0
    /\ player.max_speed = MaxSpeed

\* C8: exactly one entity matches the move_player query, a pressed Move always
\* has an axis pair, and no frame panics.
C8_AlwaysSucceeds ==
    /\ status = "running"
    /\ Cardinality(players(entities)) = 1
    /\ (Active => clamped_axis_pair(action_state).some)

C8_Witness ==
    /\ frames >= 2 /\ Active /\ status = "running"
    /\ clamped_axis_pair(action_state) = Some(Axis)

\* C9: for dt > 0 the displacement is a positive multiple of the axis, and axes
\* that are positive multiples of each other give, from the same state and with
\* the same dt, the same position and rotation: what a pressed frame leaves is
\* what it would have left for any other axis pointing the same way.
C9_MagnitudeOnlyDirection ==
    /\ (Ran /\ Active /\ Axis # Vec2_ZERO /\ RLt(Zero, Dt)) =>
           PositiveMultiple(Axis, Delta)
    /\ (Ran /\ Active) =>
           \A other \in Axes :
               PositiveMultiple(Axis, other) =>
                   player_transform =
                       move_player(entities, before,
                                   update_action_state(input_map, other, TRUE),
                                   player, Dt).transform

C9_Witness ==
    /\ Ran /\ Active /\ Axis = Vec2(R(3, 10), R(2, 5)) /\ Dt = R(1, 10)
    /\ before.translation # Vec2_ZERO
    /\ Delta = Vec2(R(9, 1), R(12, 1))
    /\ player_transform =
           move_player(entities, before,
                       update_action_state(input_map, Vec2(R(3, 5), R(4, 5)), TRUE),
                       player, Dt).transform

\* C10: the distance from the origin is at most max_speed times the summed dt
\* of the pressed frames, and no frame moves farther than max_speed * dt.
C10_BoundedTravel ==
    /\ RLe(length_squared(Position), powi2(RMul(MaxSpeed, active_time)))
    /\ Ran => RLe(length_squared(Delta), powi2(RMul(MaxSpeed, Dt)))

C10_Witness ==
    /\ frames >= 2 /\ Active /\ RLt(Zero, Dt) /\ RLt(Dt, active_time)
    /\ Delta # Vec2_ZERO /\ before.translation # Vec2_ZERO
    /\ RLt(length_squared(Position), powi2(RMul(MaxSpeed, active_time)))

=============================================================================
